---------------------------- MODULE Spec2Model ----------------------------
(***************************************************************************)
(* DevLearningHub: the search subsystem of the App (isFuzzyMatch, the      *)
(* filteredCourses computations and the Highlight component) and the       *)
(* SearchInput component that feeds it.                                    *)
(*                                                                         *)
(* A JavaScript string is a sequence of one-character strings.  COURSES    *)
(* comes from ./constants, which holds data only; it is drawn from a       *)
(* bounded catalogue of courses.                                           *)
(***************************************************************************)
EXTENDS Integers, Sequences, FiniteSets, TLC

VARIABLES
    COURSES,            \* the imported course list            (App.tsx:318)
    searchQuery,        \* useState('')                        (App.tsx:480)
    scored,             \* COURSES.map(... {course, score})    (App.tsx:580)
    filteredCourses,    \* scoring useMemo                     (App.tsx:574)
    filteredCoursesV1,  \* substring-only useMemo              (App.tsx:153)
    filteredCoursesP0,  \* substring-only useMemo          (part_000:328)
    fmText,             \* isFuzzyMatch argument text
    fmQuery,            \* isFuzzyMatch argument query
    fmResult,           \* isFuzzyMatch return value
    hlText,             \* Highlight prop text
    hlQuery,            \* Highlight prop query
    hlParts,            \* the segments Highlight renders     (App.tsx:323)
    hlPartsV1,          \* the segments Highlight renders       (App.tsx:7)
    hlPartsP0,          \* the segments Highlight renders      (part_000:7)
    inputQuery,         \* query, useState('')          (SearchInput.tsx:15)
    showSuggestions,    \* useState(false)              (SearchInput.tsx:16)
    isDragging,         \* useState(false)              (SearchInput.tsx:17)
    suggestions,        \* the suggestions prop         (SearchInput.tsx:14)
    component,          \* which SearchInput the App imports
    apiKey,             \* process.env.API_KEY            (geminiService.ts:5)
    explanation,        \* useState(null): <<>> or <<text>>     (App.tsx:364)
    isAiLoading,        \* useState(false)                      (App.tsx:365)
    mounted,            \* the CodeBlock is in the rendered course list
    block,              \* which mount of the CodeBlock this is
    requests,           \* the askGemini calls handleAiExplain awaits
    pos,                \* useState({ x: 50, y: 50 })            (App.tsx:62)
    paused,             \* useState(false)                       (App.tsx:63)
    gameVersion,        \* which LogicGame: "App.tsx" or "part_000"
    appVersion,         \* which App: "App.tsx:116", "App.tsx:474", "part_000"
    LANGUAGES,          \* the list ./constants exports       (App.tsx:318)
    appRunning,         \* the page is open and App is mounted
    theme,              \* useState(() => getItem('theme') || 'dark')
    lang,               \* useState(() => getItem('lang') || 'en')
    fontSize,           \* useState(() => getItem('fontSize') || 'medium')
    localStorage,       \* the items of window.localStorage, by key
    speechSynthesis,    \* the browser has window.speechSynthesis
    utteranceLang,      \* lang of the utterance last passed to speak
    pc                  \* "app", or "call"/"done" around a function call

vars == <<COURSES, searchQuery, scored, filteredCourses, filteredCoursesV1,
          filteredCoursesP0, fmText, fmQuery, fmResult, hlText, hlQuery,
          hlParts, hlPartsV1, hlPartsP0, inputQuery, showSuggestions,
          isDragging,
          suggestions, component, apiKey, explanation, isAiLoading, mounted,
          block, requests, pos, paused, gameVersion, appVersion, LANGUAGES,
          appRunning, theme, lang, fontSize, localStorage, speechSynthesis,
          utteranceLang, pc>>

rankerVars == <<COURSES, searchQuery, scored, filteredCourses,
                filteredCoursesV1, filteredCoursesP0>>
matcherVars == <<fmText, fmQuery, fmResult>>
highlightVars == <<hlText, hlQuery, hlParts, hlPartsV1, hlPartsP0>>
searchInputVars == <<inputQuery, showSuggestions, isDragging, suggestions,
                     component>>
explainVars == <<apiKey, explanation, isAiLoading, mounted, block, requests>>
\* the state of the components beside the search
gameVars == <<pos, paused, gameVersion>>
prefsVars == <<appVersion, LANGUAGES, appRunning, theme, lang, fontSize,
               localStorage, speechSynthesis, utteranceLang>>
widgetVars == <<explainVars, gameVars, prefsVars>>

-----------------------------------------------------------------------------
(* Bounds *)

MaxQueryLen == 3        \* longest search query typed into the App
MaxCourses == 2         \* longest COURSES list
MaxModules == 1         \* most modules of one course
MaxFmTextLen == 4       \* longest text handed to isFuzzyMatch
MaxFmQueryLen == 3      \* longest query handed to isFuzzyMatch
MaxHlTextLen == 3       \* longest text handed to Highlight
MaxHlQueryLen == 2      \* longest query handed to Highlight
MaxRankQueryLen == 4    \* longest query pasted into the App
MaxRequests == 2        \* most askGemini calls awaited at one time
MaxMounts == 2          \* most mounts of the CodeBlock

-----------------------------------------------------------------------------
(* JavaScript string primitives *)

\* the lower-case form of every upper-case letter
LowerCaseOf ==
    [A |-> "a", B |-> "b", C |-> "c", D |-> "d", E |-> "e", F |-> "f",
     G |-> "g", H |-> "h", I |-> "i", J |-> "j", K |-> "k", L |-> "l",
     M |-> "m", N |-> "n", O |-> "o", P |-> "p", Q |-> "q", R |-> "r",
     S |-> "s", T |-> "t", U |-> "u", V |-> "v", W |-> "w", X |-> "x",
     Y |-> "y", Z |-> "z"]

\* the upper-case form of every lower-case letter
UpperCaseOf ==
    [a |-> "A", b |-> "B", c |-> "C", d |-> "D", e |-> "E", f |-> "F",
     g |-> "G", h |-> "H", i |-> "I", j |-> "J", k |-> "K", l |-> "L",
     m |-> "M", n |-> "N", o |-> "O", p |-> "P", q |-> "Q", r |-> "R",
     s |-> "S", t |-> "T", u |-> "U", v |-> "V", w |-> "W", x |-> "X",
     y |-> "Y", z |-> "Z"]

\* String.prototype.toLowerCase on one character
LowerChar(c) == IF c \in DOMAIN LowerCaseOf THEN LowerCaseOf[c] ELSE c

\* String.prototype.toLowerCase
toLowerCase(s) == [k \in 1..Len(s) |-> LowerChar(s[k])]

\* String.prototype.toUpperCase on one character
UpperChar(c) == IF c \in DOMAIN UpperCaseOf THEN UpperCaseOf[c] ELSE c

\* the characters String.prototype.trim strips and \s matches
IsWhiteSpace(c) == c \in {" ", "\t", "\n"}

\* String.prototype.trim
RECURSIVE trimStart(_)
trimStart(s) ==
    IF s # <<>> /\ IsWhiteSpace(Head(s)) THEN trimStart(Tail(s)) ELSE s

RECURSIVE trimEnd(_)
trimEnd(s) ==
    IF s # <<>> /\ IsWhiteSpace(s[Len(s)])
    THEN trimEnd(SubSeq(s, 1, Len(s) - 1))
    ELSE s

\* variant of trim that strips the white space at the start only
trimStartOnly(s) == trimStart(s)

trim(s) == trimEnd(trimStart(s))

\* String.prototype.includes
includes(t, w) ==
    \E k \in 0..(Len(t) - Len(w)) : SubSeq(t, k + 1, k + Len(w)) = w

\* String.prototype.split(/\s+/): cut at every maximal run of white space;
\* a run at the start or the end leaves an empty piece there.
RECURSIVE splitWhiteSpace(_)
splitWhiteSpace(s) ==
    IF \A k \in 1..Len(s) : ~IsWhiteSpace(s[k])
    THEN <<s>>
    ELSE LET first == CHOOSE k \in 1..Len(s) :
                          /\ IsWhiteSpace(s[k])
                          /\ \A m \in 1..(k - 1) : ~IsWhiteSpace(s[m])
             after == CHOOSE k \in (first + 1)..(Len(s) + 1) :
                          /\ k = Len(s) + 1 \/ ~IsWhiteSpace(s[k])
                          /\ \A m \in first..(k - 1) : IsWhiteSpace(s[m])
         IN  <<SubSeq(s, 1, first - 1)>>
                 \o splitWhiteSpace(SubSeq(s, after, Len(s)))

-----------------------------------------------------------------------------
(* Matcher *)

\* variant of the loop that answers true only after a character matched
RECURSIVE isFuzzyMatchLoopMatchedSome(_, _, _, _)
isFuzzyMatchLoopMatchedSome(t, q, i, j) ==
    IF i < Len(t) /\ j < Len(q)
    THEN isFuzzyMatchLoopMatchedSome(t, q, i + 1,
                                     IF t[i + 1] = q[j + 1] THEN j + 1 ELSE j)
    ELSE j > 0 /\ j = Len(q)

\* the while loop of isFuzzyMatch; i and j are the 0-based indices
RECURSIVE isFuzzyMatchLoop(_, _, _, _)
isFuzzyMatchLoop(t, q, i, j) ==
    IF i < Len(t) /\ j < Len(q)
    THEN isFuzzyMatchLoop(t, q, i + 1, IF t[i + 1] = q[j + 1] THEN j + 1 ELSE j)
    ELSE j = Len(q)

\* variant of isFuzzyMatch that compares without lower-casing
isFuzzyMatchCaseSensitive(text, query) ==
    isFuzzyMatchLoop(text, query, 0, 0)

isFuzzyMatch(text, query) ==
    isFuzzyMatchLoop(toLowerCase(text), toLowerCase(query), 0, 0)

-----------------------------------------------------------------------------
(* Ranker: the scoring filteredCourses of App.tsx:574-613 *)

\* m.code of a module that has no code
NoCode == <<"undefined">>

\* (m.code || '')
codeOrEmpty(m) == IF m.code = NoCode THEN <<>> ELSE m.code

\* variant of the title line that adds what a module title adds
titleExactAsModuleTitle(cTitle, w) == IF includes(cTitle, w) THEN 30 ELSE 0

\* if (cTitle.includes(w)) score += 100;
titleExact(cTitle, w) == IF includes(cTitle, w) THEN 100 ELSE 0

\* variant of the category line that also rewards a fuzzy match
categoryExactOrFuzzy(cCat, w) ==
    IF includes(cCat, w) THEN 50 ELSE IF isFuzzyMatch(cCat, w) THEN 20 ELSE 0

\* if (cCat.includes(w)) score += 50;
categoryExact(cCat, w) == IF includes(cCat, w) THEN 50 ELSE 0

\* variant of the module title line that adds what a description adds
moduleTitleExactAsDesc(mTitle, w) == IF includes(mTitle, w) THEN 10 ELSE 0

\* if (mTitle.includes(w)) score += 30;
moduleTitleExact(mTitle, w) == IF includes(mTitle, w) THEN 30 ELSE 0

\* if (mDesc.includes(w)) score += 10;
moduleDescExact(mDesc, w) == IF includes(mDesc, w) THEN 10 ELSE 0

\* if (mCode.includes(w)) score += 5;
moduleCodeExact(mCode, w) == IF includes(mCode, w) THEN 5 ELSE 0

\* if (!mTitle.includes(w) && isFuzzyMatch(mTitle, w)) score += 10;
moduleTitleFuzzy(mTitle, w) ==
    IF ~includes(mTitle, w) /\ isFuzzyMatch(mTitle, w) THEN 10 ELSE 0

\* if (!mDesc.includes(w) && isFuzzyMatch(mDesc, w)) score += 5;
moduleDescFuzzy(mDesc, w) ==
    IF ~includes(mDesc, w) /\ isFuzzyMatch(mDesc, w) THEN 5 ELSE 0

\* if (mCode && !mCode.includes(w) && isFuzzyMatch(mCode, w)) score += 2;
moduleCodeFuzzy(mCode, w) ==
    IF mCode # <<>> /\ ~includes(mCode, w) /\ isFuzzyMatch(mCode, w)
    THEN 2 ELSE 0

\* variant of the fuzzy title line without the !cTitle.includes(w) guard
titleFuzzyUnguarded(cTitle, w) == IF isFuzzyMatch(cTitle, w) THEN 20 ELSE 0

\* if (!cTitle.includes(w) && isFuzzyMatch(cTitle, w)) score += 20;
titleFuzzy(cTitle, w) ==
    IF ~includes(cTitle, w) /\ isFuzzyMatch(cTitle, w) THEN 20 ELSE 0

\* the body of course.modules.forEach(m => ...) for one module
moduleScore(m, w) ==
    LET mTitle == toLowerCase(m.title)
        mDesc == toLowerCase(m.description)
        mCode == toLowerCase(codeOrEmpty(m))
    IN  moduleTitleExact(mTitle, w) + moduleDescExact(mDesc, w)
          + moduleCodeExact(mCode, w) + moduleTitleFuzzy(mTitle, w)
          + moduleDescFuzzy(mDesc, w) + moduleCodeFuzzy(mCode, w)

\* course.modules.forEach
RECURSIVE modulesScore(_, _)
modulesScore(modules, w) ==
    IF modules = <<>> THEN 0
    ELSE moduleScore(Head(modules), w) + modulesScore(Tail(modules), w)

\* the body of words.forEach(w => ...) for one word
wordScore(course, w) ==
    LET cTitle == toLowerCase(course.title)
        cCat == toLowerCase(course.category)
    IN  titleExact(cTitle, w) + categoryExact(cCat, w)
          + modulesScore(course.modules, w) + titleFuzzy(cTitle, w)

\* words.forEach
RECURSIVE wordsScore(_, _)
wordsScore(course, words) ==
    IF words = <<>> THEN 0
    ELSE wordScore(course, Head(words)) + wordsScore(course, Tail(words))

\* variant of the word list that drops repeated words
queryWordsDistinct(trimmedQuery) ==
    LET ws == splitWhiteSpace(trimmedQuery)
        firsts == {k \in 1..Len(ws) : \A m \in 1..(k - 1) : ws[m] # ws[k]}
    IN  [n \in 1..Cardinality(firsts) |->
            ws[CHOOSE k \in firsts :
                   Cardinality({m \in firsts : m < k}) = n - 1]]

\* const words = trimmedQuery.split(/\s+/);
queryWords(trimmedQuery) == splitWhiteSpace(trimmedQuery)

\* COURSES.map(course => { ...; return { course, score }; })
scoreCourses(courses, words) ==
    [k \in 1..Len(courses) |->
        [course |-> courses[k], score |-> wordsScore(courses[k], words)]]

\* variant of the filter that also keeps a score of 0
keepScoredNonNegative(s) == s.score >= 0

\* variant of the filter that keeps only what scores more than one title
\* match
keepScoredAboveTitle(s) == s.score > 100

\* .filter(s => s.score > 0)
keepScored(s) == s.score > 0

\* variant of the comparator with the operands swapped
compareScoreAscending(a, b) == a.score - b.score

\* the comparator (a, b) => b.score - a.score
compareScore(a, b) == b.score - a.score

\* variant of the insertion of an unstable sort: an element goes before the
\* elements the comparator calls equal to it
insertSortedBeforeTies(sorted, x) ==
    LET before == {k \in 1..Len(sorted) :
                      \A m \in 1..k : compareScore(sorted[m], x) < 0}
        n == Cardinality(before)
    IN  SubSeq(sorted, 1, n) \o <<x>> \o SubSeq(sorted, n + 1, Len(sorted))

\* Array.prototype.sort is stable: an element goes behind every element the
\* comparator does not put after it.
insertSorted(sorted, x) ==
    LET before == {k \in 1..Len(sorted) :
                      \A m \in 1..k : compareScore(sorted[m], x) <= 0}
        n == Cardinality(before)
    IN  SubSeq(sorted, 1, n) \o <<x>> \o SubSeq(sorted, n + 1, Len(sorted))

RECURSIVE sortLoop(_, _)
sortLoop(sorted, rest) ==
    IF rest = <<>> THEN sorted
    ELSE sortLoop(insertSorted(sorted, Head(rest)), Tail(rest))

\* .sort((a, b) => b.score - a.score)
sortScored(s) == sortLoop(<<>>, s)

\* variant of the ranking that returns a placeholder course when no course
\* is kept
rankScoredPadded(s) ==
    LET sorted == sortScored(SelectSeq(s, keepScored))
    IN  IF sorted = <<>>
        THEN <<[id |-> 0, title |-> <<>>, category |-> <<>>, modules |-> <<>>]>>
        ELSE [k \in 1..Len(sorted) |-> sorted[k].course]

\* scored.filter(...).sort(...).map(s => s.course)
rankScored(s) ==
    LET sorted == sortScored(SelectSeq(s, keepScored))
    IN  [k \in 1..Len(sorted) |-> sorted[k].course]

\* variant of the ranking that sorts the COURSES array itself
coursesAfterRankSortedInPlace(courses, s) ==
    LET sorted == sortScored(s)
    IN  [k \in 1..Len(sorted) |-> sorted[k].course]

\* COURSES after the ranking: map and filter return new arrays and sort
\* reorders the array filter returned, toLowerCase returns new strings, so
\* the array map was called on and its courses are as they were
coursesAfterRank(courses, s) == courses

\* variant of the query normalisation without trim()
trimmedQueryOfUntrimmed(query) == toLowerCase(query)

\* searchQuery.toLowerCase().trim()
trimmedQueryOf(query) == trim(toLowerCase(query))

\* the scored array of the scoring useMemo (nothing is scored on the
\* pass-through path)
computeScored(courses, query) ==
    IF trimmedQueryOf(query) = <<>> THEN <<>>
    ELSE scoreCourses(courses, queryWords(trimmedQueryOf(query)))

\* the scoring useMemo, App.tsx:574-613
computeFilteredCourses(courses, query) ==
    IF trimmedQueryOf(query) = <<>> THEN courses
    ELSE rankScored(computeScored(courses, query))

\* c.modules.some(m => m.title...includes(q) || m.description...includes(q))
someModuleMatches(modules, q) ==
    \E k \in 1..Len(modules) :
        \/ includes(toLowerCase(modules[k].title), q)
        \/ includes(toLowerCase(modules[k].description), q)

\* the substring-only useMemo, App.tsx:153-161
computeFilteredCoursesV1(courses, query) ==
    LET q == trim(toLowerCase(query))
        keep(c) == \/ includes(toLowerCase(c.title), q)
                   \/ includes(toLowerCase(c.category), q)
                   \/ someModuleMatches(c.modules, q)
    IN  IF q = <<>> THEN courses ELSE SelectSeq(courses, keep)

\* the substring-only useMemo, part_000:328-336
computeFilteredCoursesP0(courses, query) ==
    LET q == trim(toLowerCase(query))
        keep(c) == \/ includes(toLowerCase(c.title), q)
                   \/ includes(toLowerCase(c.category), q)
                   \/ someModuleMatches(c.modules, q)
    IN  IF q = <<>> THEN courses ELSE SelectSeq(courses, keep)

-----------------------------------------------------------------------------
(* Span Highlighter: the Highlight component *)

\* the character class [.*+?^${}()|[\]\\] of the escaping replace
RegExpSyntaxChars ==
    {".", "*", "+", "?", "^", "$", "{", "}", "(", ")", "|", "[", "]", "\\"}

\* variant of the escaping that leaves every character as it is
escapeCharUnescaped(c) == <<c>>

\* '\\$&' applied to one character of the query
escapeChar(c) == IF c \in RegExpSyntaxChars THEN <<"\\", c>> ELSE <<c>>

\* query.replace(/[.*+?^${}()|[\]\\]/g, '\\$&')
RECURSIVE escapeQuery(_)
escapeQuery(query) ==
    IF query = <<>> THEN <<>>
    ELSE escapeChar(Head(query)) \o escapeQuery(Tail(query))

\* new RegExp(`(${escapedQuery})`, 'gi'): the atoms of the group.  A
\* backslash makes the next character a literal, an unescaped dot is the
\* wildcard, every other character stands for itself.
RECURSIVE compileAtoms(_)
compileAtoms(source) ==
    IF source = <<>> THEN <<>>
    ELSE IF Head(source) = "\\" /\ Len(source) >= 2
         THEN <<[kind |-> "char", ch |-> source[2]]>>
                  \o compileAtoms(SubSeq(source, 3, Len(source)))
         ELSE IF Head(source) = "."
              THEN <<[kind |-> "any", ch |-> "."]>>
                       \o compileAtoms(Tail(source))
              ELSE <<[kind |-> "char", ch |-> Head(source)]>>
                       \o compileAtoms(Tail(source))

\* variant of the character test without the i flag
atomMatchesCaseSensitive(atom, c) ==
    IF atom.kind = "any" THEN c \notin {"\n", "\r"}
    ELSE atom.ch = c

\* one atom against one character under the i flag (Canonicalize compares
\* the upper-case forms); the wildcard matches all but line terminators
atomMatches(atom, c) ==
    IF atom.kind = "any" THEN c \notin {"\n", "\r"}
    ELSE UpperChar(atom.ch) = UpperChar(c)

\* the regular expression tried at 0-based index q of S: the end index of
\* the match, or -1
matchAt(S, q, atoms) ==
    IF /\ q + Len(atoms) <= Len(S)
       /\ \A k \in 1..Len(atoms) : atomMatches(atoms[k], S[q + k])
    THEN q + Len(atoms)
    ELSE -1

\* the loop of String.prototype.split with a regular expression that has one
\* capturing group: p is the end of the last match, q the scan index, A the
\* pieces so far; every match adds the text before it and the capture
RECURSIVE splitLoop(_, _, _, _, _)
splitLoop(S, atoms, p, q, A) ==
    IF q < Len(S)
    THEN LET e == matchAt(S, q, atoms)
         IN  IF e = -1 \/ e = p
             THEN splitLoop(S, atoms, p, q + 1, A)
             ELSE splitLoop(S, atoms, e, e,
                            A \o <<SubSeq(S, p + 1, q)>>
                              \o <<SubSeq(S, q + 1, e)>>)
    ELSE A \o <<SubSeq(S, p + 1, Len(S))>>

\* variant of the split whose regular expression has no capturing group:
\* the matches are not among the pieces
splitByRegExpNoCapture(text, escapedQuery) ==
    LET atoms == compileAtoms(escapedQuery)
        pieces == IF text = <<>>
                  THEN IF matchAt(text, 0, atoms) # -1 THEN <<>> ELSE <<text>>
                  ELSE splitLoop(text, atoms, 0, 0, <<>>)
    IN  [k \in 1..((Len(pieces) + 1) \div 2) |-> pieces[2 * k - 1]]

\* text.split(new RegExp(`(${escapedQuery})`, 'gi'))
splitByRegExp(text, escapedQuery) ==
    LET atoms == compileAtoms(escapedQuery)
    IN  IF text = <<>>
        THEN IF matchAt(text, 0, atoms) # -1 THEN <<>> ELSE <<text>>
        ELSE splitLoop(text, atoms, 0, 0, <<>>)

\* variant of the tagging that compares a part with the query as typed
tagPartsCaseSensitive(parts, query) ==
    [k \in 1..Len(parts) |->
        [text |-> parts[k], matched |-> parts[k] = query]]

\* parts.map: a part is wrapped in the highlight-match span exactly when
\* part.toLowerCase() === query.toLowerCase()
tagParts(parts, query) ==
    [k \in 1..Len(parts) |->
        [text |-> parts[k],
         matched |-> toLowerCase(parts[k]) = toLowerCase(query)]]

\* variant of Highlight that returns early for the empty query only
HighlightUntrimmed(text, query) ==
    IF query = <<>> THEN <<[text |-> text, matched |-> FALSE]>>
    ELSE tagParts(splitByRegExp(text, escapeQuery(query)), query)

\* Highlight, App.tsx:323-336
Highlight(text, query) ==
    IF trim(query) = <<>> THEN <<[text |-> text, matched |-> FALSE]>>
    ELSE tagParts(splitByRegExp(text, escapeQuery(query)), query)

\* Highlight, App.tsx:7-19
HighlightV1(text, query) ==
    IF trim(query) = <<>> THEN <<[text |-> text, matched |-> FALSE]>>
    ELSE tagParts(splitByRegExp(text, escapeQuery(query)), query)

\* Highlight, part_000:7-19
HighlightP0(text, query) ==
    IF trim(query) = <<>> THEN <<[text |-> text, matched |-> FALSE]>>
    ELSE tagParts(splitByRegExp(text, escapeQuery(query)), query)

-----------------------------------------------------------------------------
(* The catalogue COURSES is drawn from *)

\* the title and category of the courses
CourseHeads ==
    { [title |-> <<"a", "B", "a">>, category |-> <<"A", "B", "A">>],
      [title |-> <<"B">>, category |-> <<"B">>] }

\* the modules of the courses: one without code, one with code
ModuleSeq ==
    << [title |-> <<"a", "B", "a">>, description |-> <<"B">>,
        code |-> NoCode],
       [title |-> <<"B">>, description |-> <<"a", "B", "a">>,
        code |-> <<"a", "B", "a">>] >>

\* a list of records with id = position in the list
withIds(s) == [k \in 1..Len(s) |-> [id |-> k] @@ s[k]]

\* the module lists: the runs of ModuleSeq of at most MaxModules modules
ModuleLists ==
    {withIds(SubSeq(ModuleSeq, r[1], r[2])) :
        r \in {q \in (1..Len(ModuleSeq)) \X (0..Len(ModuleSeq)) :
                  q[2] - q[1] + 1 <= MaxModules}}

CoursePool ==
    {h @@ [modules |-> ms] : h \in CourseHeads, ms \in ModuleLists}

Catalogues ==
    {withIds(cs) : cs \in UNION {[1..n -> CoursePool] : n \in 0..MaxCourses}}

\* all strings over chars of length at most n
Strings(chars, n) == UNION {[1..k -> chars] : k \in 0..n}

\* the characters typed into the search box
TypedChars == {"a", "B", " "}

-----------------------------------------------------------------------------
(* The App: the search query and the memoised course lists *)

\* a render after setSearchQuery(value): every useMemo on [searchQuery] reruns
setSearchQuery(value) ==
    /\ searchQuery' = value
    /\ scored' = computeScored(COURSES, value)
    /\ filteredCourses' = IF trimmedQueryOf(value) = <<>> THEN COURSES
                          ELSE rankScored(scored')
    /\ filteredCoursesV1' = computeFilteredCoursesV1(COURSES, value)
    /\ filteredCoursesP0' = computeFilteredCoursesP0(COURSES, value)
    /\ COURSES' = IF trimmedQueryOf(value) = <<>> THEN COURSES
                  ELSE coursesAfterRank(COURSES, scored')

\* onSearch(value) in an event that touches nothing but the search
Search(value) ==
    /\ setSearchQuery(value)
    /\ UNCHANGED <<matcherVars, highlightVars, widgetVars, pc>>

\* App.tsx:615-622: the titles of the courses and of their modules, each
\* once, in the order a Set keeps: the order of the first add
RECURSIVE addAll(_, _)
addAll(suggestionsSet, titles) ==
    IF titles = <<>> THEN suggestionsSet
    ELSE addAll(IF \E k \in 1..Len(suggestionsSet) :
                       suggestionsSet[k] = Head(titles)
                THEN suggestionsSet
                ELSE Append(suggestionsSet, Head(titles)),
                Tail(titles))

RECURSIVE searchSuggestionsLoop(_, _)
searchSuggestionsLoop(suggestionsSet, courses) ==
    IF courses = <<>> THEN suggestionsSet
    ELSE LET c == Head(courses)
             titles == <<c.title>>
                           \o [k \in 1..Len(c.modules) |-> c.modules[k].title]
         IN  searchSuggestionsLoop(addAll(suggestionsSet, titles),
                                   Tail(courses))

searchSuggestions(courses) == searchSuggestionsLoop(<<>>, courses)

\* the suggestions prop of part_000:401
SuggestionsP0 ==
    << <<"T", "y", "p", "e", "S", "c", "r", "i", "p", "t">>,
       <<"J", "a", "v", "a", "S", "c", "r", "i", "p", "t">>,
       <<"G", "o", "l", "a", "n", "g">>,
       <<"P", "y", "t", "h", "o", "n">>,
       <<"N", "o", "d", "e", ".", "j", "s">>,
       <<"C", "l", "o", "s", "u", "r", "e">>,
       <<"C", "h", "a", "n", "n", "e", "l", "s">>,
       <<"G", "e", "n", "e", "r", "a", "t", "o", "r", "s">> >>

-----------------------------------------------------------------------------
(* SearchInput: SearchInput.tsx, whose handlers part_001 shares, and the   *)
(* older part_002                                                          *)

\* suggestions.filter(s => s.toLowerCase().includes(query.toLowerCase())
\*                         && query.length > 0)
filteredSuggestions ==
    LET keep(s) == /\ includes(toLowerCase(s), toLowerCase(inputQuery))
                   /\ Len(inputQuery) > 0
    IN  SelectSeq(suggestions, keep)

\* onChange of the input: setQuery, onSearch, setShowSuggestions(true)
onChangeUpdates(value) ==
    /\ inputQuery' = value
    /\ setSearchQuery(value)
    /\ showSuggestions' = TRUE
    /\ UNCHANGED <<isDragging, suggestions, component>>

\* onChange of the input in an event no other component listens to
onChange(value) ==
    /\ onChangeUpdates(value)
    /\ UNCHANGED <<matcherVars, highlightVars, widgetVars, pc>>

\* onChange of the input: a character typed at the end of the text
OnChangeType(c) ==
    /\ Len(inputQuery) < MaxQueryLen
    /\ onChange(Append(inputQuery, c))

\* onChange of the input: the last character deleted
OnChangeDelete ==
    /\ inputQuery # <<>>
    /\ onChange(SubSeq(inputQuery, 1, Len(inputQuery) - 1))

\* the clear button, rendered only when query is non-empty
ClearInput ==
    /\ inputQuery # <<>>
    /\ inputQuery' = <<>>
    /\ Search(<<>>)
    /\ UNCHANGED <<showSuggestions, isDragging, suggestions, component>>

\* variant of the click on a suggestion that does not call onSearch
PickSuggestionNoSearch(s) ==
    /\ showSuggestions
    /\ \E i \in 1..Len(filteredSuggestions) : filteredSuggestions[i] = s
    /\ inputQuery' = s
    /\ showSuggestions' = FALSE
    /\ UNCHANGED <<rankerVars, matcherVars, highlightVars, widgetVars, pc, isDragging,
                   suggestions, component>>

\* variant of the click on a suggestion that leaves the list open
PickSuggestionListOpen(s) ==
    /\ showSuggestions
    /\ \E i \in 1..Len(filteredSuggestions) : filteredSuggestions[i] = s
    /\ inputQuery' = s
    /\ Search(s)
    /\ showSuggestions' = TRUE
    /\ UNCHANGED <<isDragging, suggestions, component>>

\* onClick of an entry of the suggestion list, which is rendered when
\* showSuggestions && filteredSuggestions.length > 0
PickSuggestion(s) ==
    /\ showSuggestions
    /\ \E i \in 1..Len(filteredSuggestions) : filteredSuggestions[i] = s
    /\ inputQuery' = s
    /\ Search(s)
    /\ showSuggestions' = FALSE
    /\ UNCHANGED <<isDragging, suggestions, component>>

\* mousedown on the document outside the wrapper
handleClickOutside ==
    /\ showSuggestions' = FALSE
    /\ UNCHANGED <<rankerVars, matcherVars, highlightVars, widgetVars, pc, inputQuery,
                   isDragging, suggestions, component>>

handleDragOver ==
    /\ component = "SearchInput"
    /\ isDragging' = TRUE
    /\ UNCHANGED <<rankerVars, matcherVars, highlightVars, widgetVars, pc, inputQuery,
                   showSuggestions, suggestions, component>>

handleDragEnter ==
    /\ component = "SearchInput"
    /\ isDragging' = TRUE
    /\ UNCHANGED <<rankerVars, matcherVars, highlightVars, widgetVars, pc, inputQuery,
                   showSuggestions, suggestions, component>>

\* leftWrapper: the wrapper does not contain e.relatedTarget
handleDragLeave(leftWrapper) ==
    /\ component = "SearchInput"
    /\ isDragging' = IF leftWrapper THEN FALSE ELSE isDragging
    /\ UNCHANGED <<rankerVars, matcherVars, highlightVars, widgetVars, pc, inputQuery,
                   showSuggestions, suggestions, component>>

\* handleDrop of SearchInput.tsx:58-71; text is e.dataTransfer.getData('text')
handleDrop(text) ==
    /\ component = "SearchInput"
    /\ Len(inputQuery) + Len(text) <= MaxQueryLen
    /\ isDragging' = FALSE
    /\ IF text # <<>>
       THEN LET newQuery == inputQuery \o text
            IN  /\ inputQuery' = newQuery
                /\ Search(newQuery)
                /\ showSuggestions' = TRUE
       ELSE UNCHANGED <<rankerVars, matcherVars, highlightVars, widgetVars, pc, inputQuery,
                        showSuggestions>>
    /\ UNCHANGED <<suggestions, component>>

\* handleDrop of part_002:36-44
handleDropP2(text) ==
    /\ component = "part_002"
    /\ Len(inputQuery) + Len(text) <= MaxQueryLen
    /\ IF text # <<>>
       THEN LET newQuery == inputQuery \o text
            IN  /\ inputQuery' = newQuery
                /\ Search(newQuery)
       ELSE UNCHANGED <<rankerVars, matcherVars, highlightVars, widgetVars, pc, inputQuery>>
    /\ UNCHANGED <<showSuggestions, isDragging, suggestions, component>>

RankerIdle ==
    /\ COURSES = <<>> /\ searchQuery = <<>> /\ scored = <<>>
    /\ filteredCourses = <<>> /\ filteredCoursesV1 = <<>>
    /\ filteredCoursesP0 = <<>>

MatcherIdle == fmText = <<>> /\ fmQuery = <<>> /\ fmResult = FALSE

HighlightIdle ==
    /\ hlText = <<>> /\ hlQuery = <<>>
    /\ hlParts = <<>> /\ hlPartsV1 = <<>> /\ hlPartsP0 = <<>>

SearchInputIdle ==
    /\ inputQuery = <<>> /\ showSuggestions = FALSE /\ isDragging = FALSE
    /\ suggestions = <<>> /\ component = "SearchInput"

-----------------------------------------------------------------------------
(* CodeBlock: the AI explanation, App.tsx:362-472, and askGemini *)

\* setExplanation("Failed to get AI explanation. Please check your API key.")
FailureMessage == "Failed to get AI explanation. Please check your API key."

\* response.text || "No explanation generated."
textOrDefault(text) == IF text = "" THEN "No explanation generated." ELSE text

\* the texts generateContent answers with
ResponseTexts == {"", "An explanation."}

\* askGemini up to its first await: without an API key the async function
\* throws, so the promise it returns is rejected; with one the request is
\* sent and the promise is pending
askGemini ==
    IF apiKey = ""
    THEN [instance |-> block, status |-> "rejected", text |-> ""]
    ELSE [instance |-> block, status |-> "pending", text |-> ""]

\* a promise is settled and the rest of handleAiExplain is queued as a
\* microtask: it runs before any other event is handled
ContinuationDue ==
    \E i \in 1..Len(requests) : requests[i].status # "pending"

\* the sequence without its element i
removeAt(seq, i) == SubSeq(seq, 1, i - 1) \o SubSeq(seq, i + 1, Len(seq))

\* variant of handleAiExplain without the isAiLoading guard, on a button that
\* is not disabled
handleAiExplainUnguarded ==
    /\ mounted
    /\ ~ContinuationDue
    /\ Len(requests) < MaxRequests
    /\ isAiLoading' = TRUE
    /\ requests' = Append(requests, askGemini)
    /\ UNCHANGED <<rankerVars, matcherVars, highlightVars, searchInputVars,
                   gameVars, prefsVars, pc, apiKey, explanation, mounted, block>>

\* handleAiExplain up to its await: a click on the button (disabled while
\* isAiLoading) or any other call; the handler is the one of the last
\* render, so the isAiLoading it reads is the state
handleAiExplain ==
    /\ mounted
    /\ ~ContinuationDue
    /\ Len(requests) < MaxRequests
    /\ IF isAiLoading
       THEN UNCHANGED <<isAiLoading, requests>>
       ELSE /\ isAiLoading' = TRUE
            /\ requests' = Append(requests, askGemini)
    /\ UNCHANGED <<rankerVars, matcherVars, highlightVars, searchInputVars,
                   gameVars, prefsVars, pc, apiKey, explanation, mounted, block>>

\* ai.models.generateContent resolves with a response
generateContentResolves(i, text) ==
    /\ ~ContinuationDue
    /\ requests[i].status = "pending"
    /\ requests' = [requests EXCEPT ![i].status = "resolved", ![i].text = text]
    /\ UNCHANGED <<rankerVars, matcherVars, highlightVars, searchInputVars,
                   gameVars, prefsVars, pc, apiKey, explanation, isAiLoading, mounted, block>>

\* ai.models.generateContent rejects (network, quota, bad key)
generateContentRejects(i) ==
    /\ ~ContinuationDue
    /\ requests[i].status = "pending"
    /\ requests' = [requests EXCEPT ![i].status = "rejected"]
    /\ UNCHANGED <<rankerVars, matcherVars, highlightVars, searchInputVars,
                   gameVars, prefsVars, pc, apiKey, explanation, isAiLoading, mounted, block>>

\* the state updates of a CodeBlock that is no longer mounted are dropped
StillMounted(i) == mounted /\ requests[i].instance = block

\* handleAiExplain behind the await, askGemini resolved:
\* setExplanation(result); finally setIsAiLoading(false)
handleAiExplainResolved(i) ==
    /\ requests[i].status = "resolved"
    /\ IF StillMounted(i)
       THEN /\ explanation' = <<textOrDefault(requests[i].text)>>
            /\ isAiLoading' = FALSE
       ELSE UNCHANGED <<explanation, isAiLoading>>
    /\ requests' = removeAt(requests, i)
    /\ UNCHANGED <<rankerVars, matcherVars, highlightVars, searchInputVars,
                   gameVars, prefsVars, pc, apiKey, mounted, block>>

\* variant of the catch path without the finally block
handleAiExplainRejectedNoFinally(i) ==
    /\ requests[i].status = "rejected"
    /\ IF StillMounted(i)
       THEN /\ explanation' = <<FailureMessage>>
            /\ UNCHANGED isAiLoading
       ELSE UNCHANGED <<explanation, isAiLoading>>
    /\ requests' = removeAt(requests, i)
    /\ UNCHANGED <<rankerVars, matcherVars, highlightVars, searchInputVars,
                   gameVars, prefsVars, pc, apiKey, mounted, block>>

\* handleAiExplain behind the await, askGemini rejected:
\* catch setExplanation("Failed ..."); finally setIsAiLoading(false)
handleAiExplainRejected(i) ==
    /\ requests[i].status = "rejected"
    /\ IF StillMounted(i)
       THEN /\ explanation' = <<FailureMessage>>
            /\ isAiLoading' = FALSE
       ELSE UNCHANGED <<explanation, isAiLoading>>
    /\ requests' = removeAt(requests, i)
    /\ UNCHANGED <<rankerVars, matcherVars, highlightVars, searchInputVars,
                   gameVars, prefsVars, pc, apiKey, mounted, block>>

\* the Dismiss button, rendered when explanation is set
dismissExplanation ==
    /\ mounted
    /\ ~ContinuationDue
    /\ explanation # <<>>
    /\ explanation' = <<>>
    /\ UNCHANGED <<rankerVars, matcherVars, highlightVars, searchInputVars,
                   gameVars, prefsVars, pc, apiKey, isAiLoading, mounted, block, requests>>

\* a search leaves the course of the CodeBlock out of filteredCourses
unmountCodeBlock ==
    /\ mounted
    /\ ~ContinuationDue
    /\ mounted' = FALSE
    /\ UNCHANGED <<rankerVars, matcherVars, highlightVars, searchInputVars,
                   gameVars, prefsVars, pc, apiKey, explanation, isAiLoading, block, requests>>

\* a search brings the course back: a new CodeBlock with its initial state
mountCodeBlock ==
    /\ ~mounted
    /\ ~ContinuationDue
    /\ block < MaxMounts
    /\ mounted' = TRUE
    /\ block' = block + 1
    /\ explanation' = <<>>
    /\ isAiLoading' = FALSE
    /\ UNCHANGED <<rankerVars, matcherVars, highlightVars, searchInputVars,
                   gameVars, prefsVars, pc, apiKey, requests>>

-----------------------------------------------------------------------------
(* The preferences of App: App.tsx:116-151 and 474-550, part_000:271-326 *)

AppVersions == {"App.tsx:116", "App.tsx:474", "part_000"}

\* type Language
LanguageCodes == <<"en", "he", "zh", "hi", "de", "es", "fr">>

\* what ./constants may export as LANGUAGES: one entry for each Language
\* (App looks the current language up with find(...)! and renders an
\* option keyed by code for every entry), in one order or another
LanguageLists ==
    {LanguageCodes,
     <<"fr", "es", "de", "hi", "zh", "he", "en">>}

\* const sizes: FontSize[] = ['small', 'medium', 'large']
sizes == <<"small", "medium", "large">>

PrefKeys == {"theme", "lang", "fontSize"}

\* Array.prototype.indexOf and findIndex(l => l.code === code): the index
\* from 0 of the first match, -1 without one
indexOf(list, value) ==
    IF \E i \in 1..Len(list) : list[i] = value
    THEN (CHOOSE i \in 1..Len(list) :
              list[i] = value /\ \A j \in 1..(i - 1) : list[j] # value) - 1
    ELSE -1

\* variant of the step to the next entry that stops at the last entry
nextInCycleNoWrap(list, value) ==
    IF indexOf(list, value) + 1 < Len(list)
    THEN list[indexOf(list, value) + 2]
    ELSE list[Len(list)]

\* list[(indexOf(value) + 1) % list.length]
nextInCycle(list, value) ==
    list[((indexOf(list, value) + 1) % Len(list)) + 1]

\* prev => prev === 'dark' ? 'light' : 'dark'
toggledTheme(prev) == IF prev = "dark" THEN "light" ELSE "dark"

\* the preferences after handleKeyDown / handleShortcuts ran for a key
\* pressed with Alt and Shift; S moves the focus, other keys do nothing
shortcutPrefs(p, key) ==
    IF UpperChar(key) = "T" THEN [p EXCEPT !.theme = toggledTheme(p.theme)]
    ELSE IF UpperChar(key) = "L"
         THEN [p EXCEPT !.lang = nextInCycle(LANGUAGES, p.lang)]
    ELSE IF UpperChar(key) = "F"
         THEN [p EXCEPT !.fontSize = nextInCycle(sizes, p.fontSize)]
    ELSE p

\* window.localStorage without an item
EmptyStorage == [k \in {} |-> ""]

\* localStorage.setItem(key, value)
setItem(store, key, value) ==
    [k \in DOMAIN store \cup {key} |-> IF k = key THEN value ELSE store[k]]

\* localStorage.getItem(key) || fallback
getItemOr(store, key, fallback) ==
    IF key \in DOMAIN store /\ store[key] # "" THEN store[key] ELSE fallback

\* variant of the effects that never writes the font size
persistNoFontSize(store, changed, p) ==
    LET s1 == IF "theme" \in changed
              THEN setItem(store, "theme", p.theme) ELSE store
    IN  IF "lang" \in changed THEN setItem(s1, "lang", p.lang) ELSE s1

\* the storage after the effects of a render in which the preferences
\* of changed differ from the render before (all of them on mount):
\* App.tsx:488-490 has one effect for each key, App.tsx:128-138 and
\* part_000:282-292 write lang and fontSize in one effect
persist(store, changed, p) ==
    LET s1 == IF "theme" \in changed
              THEN setItem(store, "theme", p.theme) ELSE store
        s2 == IF "lang" \in changed THEN setItem(s1, "lang", p.lang) ELSE s1
    IN  IF appVersion = "App.tsx:474"
        THEN IF "fontSize" \in changed
             THEN setItem(s2, "fontSize", p.fontSize) ELSE s2
        ELSE IF changed \cap {"lang", "fontSize"} # {}
             THEN setItem(setItem(s1, "lang", p.lang), "fontSize", p.fontSize)
             ELSE s1

currentPrefs == [theme |-> theme, lang |-> lang, fontSize |-> fontSize]

\* the preferences whose state changes when p replaces the current ones
changedPrefs(p) == {k \in PrefKeys : p[k] # currentPrefs[k]}

\* a render with the preferences p, and its effects
setPrefs(p) ==
    /\ appRunning
    /\ theme' = p.theme
    /\ lang' = p.lang
    /\ fontSize' = p.fontSize
    /\ localStorage' = persist(localStorage, changedPrefs(p), p)
    /\ UNCHANGED <<rankerVars, matcherVars, highlightVars, searchInputVars,
                   explainVars, gameVars, pc, appVersion, LANGUAGES,
                   appRunning, speechSynthesis, utteranceLang>>

\* the language select: onChange={(e) => setLang(e.target.value)}
selectLang(code) == setPrefs([currentPrefs EXCEPT !.lang = code])

\* the font size buttons: onClick={() => setFontSize(size)}
clickFontSize(size) == setPrefs([currentPrefs EXCEPT !.fontSize = size])

\* the theme button
clickTheme == setPrefs([currentPrefs EXCEPT !.theme = toggledTheme(theme)])

ShortcutKeys == {"T", "t", "L", "F", "S"}

\* keydown with e.altKey && e.shiftKey; App.tsx:116-314 has no shortcuts
handleShortcuts(key) ==
    /\ appVersion # "App.tsx:116"
    /\ setPrefs(shortcutPrefs(currentPrefs, key))

\* const langMap = { he: 'he-IL', ..., es: 'es-ES', f: 'fr-FR' }
langMap ==
    [he |-> "he-IL", zh |-> "zh-CN", hi |-> "hi-IN", de |-> "de-DE",
     es |-> "es-ES", f |-> "fr-FR"]

\* utterance.lang in speakText: the chain of conditionals of App.tsx,
\* langMap[lang] || 'en-US' in part_000
speechLang(code) ==
    IF appVersion = "part_000"
    THEN IF code \in DOMAIN langMap THEN langMap[code] ELSE "en-US"
    ELSE IF code = "he" THEN "he-IL"
    ELSE IF code = "zh" THEN "zh-CN"
    ELSE IF code = "hi" THEN "hi-IN"
    ELSE IF code = "de" THEN "de-DE"
    ELSE IF code = "es" THEN "es-ES"
    ELSE IF code = "fr" THEN "fr-FR"
    ELSE "en-US"

\* speakText(text): cancel what is spoken, speak a new utterance
speakText ==
    /\ appRunning
    /\ IF speechSynthesis
       THEN utteranceLang' = speechLang(lang)
       ELSE UNCHANGED utteranceLang
    /\ UNCHANGED <<rankerVars, matcherVars, highlightVars, searchInputVars,
                   explainVars, gameVars, pc, appVersion, LANGUAGES,
                   appRunning, theme, lang, fontSize, localStorage,
                   speechSynthesis>>

\* the page is closed; theme, lang and fontSize keep the values App had
closeApp ==
    /\ appRunning
    /\ appRunning' = FALSE
    /\ utteranceLang' = "none"
    /\ UNCHANGED <<rankerVars, matcherVars, highlightVars, searchInputVars,
                   explainVars, gameVars, pc, appVersion, LANGUAGES, theme,
                   lang, fontSize, localStorage, speechSynthesis>>

\* the user clears the data of the site while the page is closed
clearSiteData ==
    /\ ~appRunning
    /\ DOMAIN localStorage # {}
    /\ localStorage' = EmptyStorage
    /\ UNCHANGED <<rankerVars, matcherVars, highlightVars, searchInputVars,
                   explainVars, gameVars, pc, appVersion, LANGUAGES,
                   appRunning, theme, lang, fontSize, speechSynthesis,
                   utteranceLang>>

\* the preferences the initializers of useState read
storedPrefs(store) ==
    [theme |-> getItemOr(store, "theme", "dark"),
     lang |-> getItemOr(store, "lang", "en"),
     fontSize |-> getItemOr(store, "fontSize", "medium")]

\* the page is opened: the initializers, the first render and its effects
startApp ==
    /\ ~appRunning
    /\ appRunning' = TRUE
    /\ theme' = storedPrefs(localStorage).theme
    /\ lang' = storedPrefs(localStorage).lang
    /\ fontSize' = storedPrefs(localStorage).fontSize
    /\ localStorage' = persist(localStorage, PrefKeys, storedPrefs(localStorage))
    /\ UNCHANGED <<rankerVars, matcherVars, highlightVars, searchInputVars,
                   explainVars, gameVars, pc, appVersion, LANGUAGES,
                   speechSynthesis, utteranceLang>>

\* App opened for the first time, nothing stored before
PrefsStarted ==
    /\ appRunning = TRUE
    /\ theme = "dark" /\ lang = "en" /\ fontSize = "medium"
    /\ localStorage = persist(EmptyStorage, PrefKeys, currentPrefs)
    /\ utteranceLang = "none"

PrefsIdle ==
    /\ appVersion = "App.tsx:474"
    /\ LANGUAGES = LanguageCodes
    /\ speechSynthesis = TRUE
    /\ PrefsStarted

ExplainIdle ==
    /\ apiKey = "" /\ explanation = <<>> /\ isAiLoading = FALSE
    /\ mounted = FALSE /\ block = 1 /\ requests = <<>>

GameIdle == pos = [x |-> 50, y |-> 50] /\ paused = FALSE /\ gameVersion = "App.tsx"

WidgetsIdle == ExplainIdle /\ GameIdle /\ PrefsIdle

InitExplain ==
    /\ RankerIdle
    /\ MatcherIdle
    /\ HighlightIdle
    /\ SearchInputIdle
    /\ GameIdle
    /\ PrefsIdle
    /\ apiKey \in {"", "key"}
    /\ explanation = <<>>
    /\ isAiLoading = FALSE
    /\ mounted = TRUE
    /\ block = 1
    /\ requests = <<>>
    /\ pc = "app"

\* the rest of handleAiExplain, run as a microtask
ContinueExplain ==
    \E i \in 1..Len(requests) :
        handleAiExplainResolved(i) \/ handleAiExplainRejected(i)

NextExplain ==
    \/ handleAiExplain
    \/ \E i \in 1..Len(requests), text \in ResponseTexts :
           generateContentResolves(i, text)
    \/ \E i \in 1..Len(requests) : generateContentRejects(i)
    \/ ContinueExplain
    \/ dismissExplanation
    \/ unmountCodeBlock
    \/ mountCodeBlock

SpecExplain == InitExplain /\ [][NextExplain]_vars

\* the microtask queue is drained before the next event: the rest of
\* handleAiExplain runs once the promise it awaits is settled
SpecExplainLive == SpecExplain /\ WF_vars(ContinueExplain)

Init ==
    /\ COURSES \in Catalogues
    /\ searchQuery = <<>>
    /\ scored = <<>>
    /\ filteredCourses = COURSES
    /\ filteredCoursesV1 = COURSES
    /\ filteredCoursesP0 = COURSES
    /\ inputQuery = <<>>
    /\ showSuggestions = FALSE
    /\ isDragging = FALSE
    /\ suggestions = searchSuggestions(COURSES)
    /\ component = "SearchInput"
    /\ MatcherIdle
    /\ HighlightIdle
    /\ WidgetsIdle
    /\ pc = "app"

Next ==
    \/ \E c \in TypedChars : OnChangeType(c)
    \/ OnChangeDelete
    \/ ClearInput

Spec == Init /\ [][Next]_vars

-----------------------------------------------------------------------------
(* The App searched with whole values: pasted text, the worked examples *)

\* the characters of the pasted queries: letters, a space and a tab
RankChars == {"a", "B", " ", "\t"}

\* "go"
QueryGo == <<"g", "o">>

\* "go channels"
QueryGoChannels ==
    <<"g", "o", " ", "c", "h", "a", "n", "n", "e", "l", "s">>

\* the records "Go Basics" (GO) and "Python Basics" (PY), without modules
CoursesBasics ==
    withIds(<< [title |-> <<"G", "o", " ", "B", "a", "s", "i", "c", "s">>,
                category |-> <<"G", "O">>, modules |-> <<>>],
               [title |-> <<"P", "y", "t", "h", "o", "n", " ",
                            "B", "a", "s", "i", "c", "s">>,
                category |-> <<"P", "Y">>, modules |-> <<>>] >>)

\* a record "Go Concurrency" with the one module "Channels"
CourseConcurrency(category, description, code) ==
    withIds(<< [title |-> <<"G", "o", " ", "C", "o", "n", "c", "u", "r", "r",
                            "e", "n", "c", "y">>,
                category |-> category,
                modules |->
                    withIds(<< [title |-> <<"C", "h", "a", "n", "n", "e",
                                            "l", "s">>,
                                description |-> description,
                                code |-> code] >>)] >>)

\* the categories "SYS" and "GO", the descriptions "Pipes" and "Go on", no
\* code, the code "x()" and the code "go f()"
CoursesConcurrency ==
    {CourseConcurrency(category, description, code) :
        category \in {<<"S", "Y", "S">>, <<"G", "O">>},
        description \in {<<"P", "i", "p", "e", "s">>,
                         <<"G", "o", " ", "o", "n">>},
        code \in {NoCode, <<"x", "(", ")">>,
                  <<"g", "o", " ", "f", "(", ")">>}}

RankCatalogues == {<<>>, CoursesBasics} \cup CoursesConcurrency

\* " a \t B ": white space at the start, at the end and repeated inside
QuerySpaced == <<" ", "a", " ", "\t", "B", " ">>

RankQueries ==
    Strings(RankChars, MaxRankQueryLen)
        \cup {QueryGo, QueryGoChannels, QuerySpaced}

\* onChange of the empty input: a whole text pasted into it
OnChangePaste(value) ==
    /\ inputQuery = <<>>
    /\ value # <<>>
    /\ onChange(value)

InitRank ==
    /\ COURSES \in RankCatalogues
    /\ searchQuery = <<>>
    /\ scored = <<>>
    /\ filteredCourses = COURSES
    /\ filteredCoursesV1 = COURSES
    /\ filteredCoursesP0 = COURSES
    /\ inputQuery = <<>>
    /\ showSuggestions = FALSE
    /\ isDragging = FALSE
    /\ suggestions = searchSuggestions(COURSES)
    /\ component = "SearchInput"
    /\ MatcherIdle
    /\ HighlightIdle
    /\ WidgetsIdle
    /\ pc = "app"

NextRank ==
    \/ \E value \in RankQueries : OnChangePaste(value)
    \/ ClearInput

SpecRank == InitRank /\ [][NextRank]_vars

-----------------------------------------------------------------------------
(* The search box used with every handler, in both components *)

\* two courses with one module each; course and module titles repeat
CoursesPair ==
    withIds(<< [title |-> <<"a", "B", "a">>, category |-> <<"A", "B", "A">>,
                modules |-> withIds(<<ModuleSeq[2]>>)],
               [title |-> <<"B">>, category |-> <<"B">>,
                modules |-> withIds(<<ModuleSeq[1]>>)] >>)

\* the texts dragged onto the box; getData gives '' for a drag without text
DroppedTexts == {<<>>, <<"a">>, <<"a", "B">>}

\* suggestions={[]} (App.tsx:230), suggestions={searchSuggestions}
\* (App.tsx:714) and the list of part_000:401
InitSearchInput ==
    /\ COURSES \in {<<>>, CoursesPair}
    /\ searchQuery = <<>>
    /\ scored = <<>>
    /\ filteredCourses = COURSES
    /\ filteredCoursesV1 = COURSES
    /\ filteredCoursesP0 = COURSES
    /\ inputQuery = <<>>
    /\ showSuggestions = FALSE
    /\ isDragging = FALSE
    /\ suggestions \in {<<>>, searchSuggestions(COURSES), SuggestionsP0}
    /\ component \in {"SearchInput", "part_002"}
    /\ MatcherIdle
    /\ HighlightIdle
    /\ WidgetsIdle
    /\ pc = "app"

NextSearchInput ==
    \/ \E c \in TypedChars : OnChangeType(c)
    \/ OnChangeDelete
    \/ ClearInput
    \/ \E i \in 1..Len(suggestions) : PickSuggestion(suggestions[i])
    \/ handleClickOutside
    \/ handleDragOver
    \/ handleDragEnter
    \/ \E leftWrapper \in BOOLEAN : handleDragLeave(leftWrapper)
    \/ \E text \in DroppedTexts : handleDrop(text)
    \/ \E text \in DroppedTexts : handleDropP2(text)

SpecSearchInput == InitSearchInput /\ [][NextSearchInput]_vars

-----------------------------------------------------------------------------
(* isFuzzyMatch called on every pair of bounded strings *)

FmChars == {"a", "b", "B"}

FmTexts == Strings(FmChars, MaxFmTextLen)

FmQueries == Strings(FmChars, MaxFmQueryLen)

InitMatcher ==
    /\ RankerIdle
    /\ HighlightIdle
    /\ SearchInputIdle
    /\ WidgetsIdle
    /\ fmText \in FmTexts
    /\ fmQuery \in FmQueries
    /\ fmResult = FALSE
    /\ pc = "call"

CallIsFuzzyMatch ==
    /\ pc = "call"
    /\ fmResult' = isFuzzyMatch(fmText, fmQuery)
    /\ pc' = "done"
    /\ UNCHANGED <<rankerVars, highlightVars, searchInputVars, widgetVars,
                   fmText, fmQuery>>

NextMatcher == CallIsFuzzyMatch

SpecMatcher == InitMatcher /\ [][NextMatcher]_vars

-----------------------------------------------------------------------------
(* Highlight rendered on every pair of bounded strings *)

HlChars == {"a", "A", "b", ".", " "}

\* the example of the specification: query "a.b", text "a.b and axb"
ExampleQuery == <<"a", ".", "b">>

ExampleText == <<"a", ".", "b", " ", "a", "n", "d", " ", "a", "x", "b">>

HlTexts == Strings(HlChars, MaxHlTextLen) \cup {ExampleText}

HlQueries == Strings(HlChars, MaxHlQueryLen) \cup {ExampleQuery}

InitHighlight ==
    /\ RankerIdle
    /\ MatcherIdle
    /\ SearchInputIdle
    /\ WidgetsIdle
    /\ hlText \in HlTexts
    /\ hlQuery \in HlQueries
    /\ hlParts = <<>>
    /\ hlPartsV1 = <<>>
    /\ hlPartsP0 = <<>>
    /\ pc = "call"

RenderHighlight ==
    /\ pc = "call"
    /\ hlParts' = Highlight(hlText, hlQuery)
    /\ hlPartsV1' = HighlightV1(hlText, hlQuery)
    /\ hlPartsP0' = HighlightP0(hlText, hlQuery)
    /\ pc' = "done"
    /\ UNCHANGED <<rankerVars, matcherVars, searchInputVars, widgetVars,
                   hlText, hlQuery>>

NextHighlight == RenderHighlight

SpecHighlight == InitHighlight /\ [][NextHighlight]_vars

-----------------------------------------------------------------------------
(* LogicGame: App.tsx:61-115 and part_000:148-269 *)

\* the step of a move and the limits Math.max and Math.min clamp to
GameStep == IF gameVersion = "App.tsx" THEN 5 ELSE 8
GameMin == IF gameVersion = "App.tsx" THEN 0 ELSE 2
GameMax == IF gameVersion = "App.tsx" THEN 100 ELSE 98

Max(a, b) == IF a >= b THEN a ELSE b
Min(a, b) == IF a <= b THEN a ELSE b

\* variant of the updater of setPos without Math.max and Math.min
movedPosUnclamped(p, dir) ==
    [x |-> IF dir = "a" THEN p.x - GameStep
           ELSE IF dir = "d" THEN p.x + GameStep ELSE p.x,
     y |-> IF dir = "w" THEN p.y - GameStep
           ELSE IF dir = "s" THEN p.y + GameStep ELSE p.y]

\* the updater of setPos in move
movedPos(p, dir) ==
    [x |-> IF dir = "a" THEN Max(GameMin, p.x - GameStep)
           ELSE IF dir = "d" THEN Min(GameMax, p.x + GameStep) ELSE p.x,
     y |-> IF dir = "w" THEN Max(GameMin, p.y - GameStep)
           ELSE IF dir = "s" THEN Min(GameMax, p.y + GameStep) ELSE p.y]

\* variant of move without the paused guard
moveUnguarded(dir) == movedPos(pos, dir)

\* move(dir): the position after it; if (paused) return
move(dir) == IF paused THEN pos ELSE movedPos(pos, dir)

\* the keys pressed: the move keys, one of them with Shift, space, another
GameKeys == {"w", "a", "s", "d", "W", " ", "x"}

MoveKeys == {"w", "a", "s", "d"}

\* part_000:169,173: handleKey calls e.preventDefault() for its keys
defaultPrevented(key) ==
    gameVersion = "part_000" /\ (LowerChar(key) \in MoveKeys \/ key = " ")

\* a keydown event: handleKey, a listener of window, runs whatever the
\* target is; when the search input is the target and the default is not
\* prevented, the character goes into the input and onChange runs
keyDown(key, onInput) ==
    /\ pos' = IF LowerChar(key) \in MoveKeys THEN move(LowerChar(key)) ELSE pos
    /\ paused' = IF key = " " THEN ~paused ELSE paused
    /\ IF onInput /\ ~defaultPrevented(key)
       THEN /\ Len(inputQuery) < MaxQueryLen
            /\ onChangeUpdates(Append(inputQuery, key))
       ELSE UNCHANGED <<rankerVars, searchInputVars>>
    /\ UNCHANGED <<matcherVars, highlightVars, explainVars, prefsVars, gameVersion, pc>>

keyDownOnInput(key) == keyDown(key, TRUE)

keyDownElsewhere(key) == keyDown(key, FALSE)

\* the W, A, S and D buttons
moveButton(dir) ==
    /\ pos' = move(dir)
    /\ UNCHANGED <<rankerVars, matcherVars, highlightVars, searchInputVars,
                   explainVars, prefsVars, paused, gameVersion,
                   pc>>

\* the Pause / Resume button: setPaused(!paused)
togglePaused ==
    /\ paused' = ~paused
    /\ UNCHANGED <<rankerVars, matcherVars, highlightVars, searchInputVars,
                   explainVars, prefsVars, pos, gameVersion,
                   pc>>

\* the Reset button: setPos({ x: 50, y: 50 })
resetPos ==
    /\ pos' = [x |-> 50, y |-> 50]
    /\ UNCHANGED <<rankerVars, matcherVars, highlightVars, searchInputVars,
                   explainVars, prefsVars, paused, gameVersion,
                   pc>>

\* the App that renders the LogicGame: App.tsx:230 passes no suggestions,
\* part_000:401 its list
InitGame ==
    /\ COURSES = CoursesPair
    /\ searchQuery = <<>>
    /\ scored = <<>>
    /\ filteredCourses = COURSES
    /\ filteredCoursesV1 = COURSES
    /\ filteredCoursesP0 = COURSES
    /\ inputQuery = <<>>
    /\ showSuggestions = FALSE
    /\ isDragging = FALSE
    /\ gameVersion \in {"App.tsx", "part_000"}
    /\ suggestions = IF gameVersion = "App.tsx" THEN <<>> ELSE SuggestionsP0
    /\ component = "SearchInput"
    /\ MatcherIdle
    /\ HighlightIdle
    /\ ExplainIdle
    /\ PrefsIdle
    /\ pos = [x |-> 50, y |-> 50]
    /\ paused = FALSE
    /\ pc = "app"

NextGame ==
    \/ \E dir \in MoveKeys : moveButton(dir)
    \/ \E key \in GameKeys : keyDownElsewhere(key)
    \/ togglePaused
    \/ resetPos

SpecGame == InitGame /\ [][NextGame]_vars

\* keys pressed while the search input has the focus
NextGameTyping == \E key \in GameKeys : keyDownOnInput(key)

SpecGameTyping == InitGame /\ [][NextGameTyping]_vars

-----------------------------------------------------------------------------
(* App with its preferences, opened and closed *)

InitPrefs ==
    /\ RankerIdle
    /\ MatcherIdle
    /\ HighlightIdle
    /\ SearchInputIdle
    /\ ExplainIdle
    /\ GameIdle
    /\ appVersion \in AppVersions
    /\ LANGUAGES \in LanguageLists
    /\ speechSynthesis \in BOOLEAN
    /\ PrefsStarted
    /\ pc = "app"

NextPrefs ==
    \/ \E code \in {LANGUAGES[i] : i \in 1..Len(LANGUAGES)} : selectLang(code)
    \/ \E size \in {sizes[i] : i \in 1..Len(sizes)} : clickFontSize(size)
    \/ clickTheme
    \/ \E key \in ShortcutKeys : handleShortcuts(key)
    \/ speakText
    \/ closeApp
    \/ clearSiteData
    \/ startApp

SpecPrefs == InitPrefs /\ [][NextPrefs]_vars

-----------------------------------------------------------------------------
(* Definitions the properties are stated with *)

\* the query is non-empty after trimming
QueryActive == \E k \in 1..Len(searchQuery) : ~IsWhiteSpace(searchQuery[k])

\* w is an ordered, possibly non-contiguous, subsequence of t
IsSubsequence(w, t) ==
    /\ Len(w) <= Len(t)
    /\ \A k \in 1..Len(w) : \E n \in 1..Len(t) : t[n] = w[k]
    /\ \E f \in [1..Len(w) -> 1..Len(t)] :
          /\ \A k \in 1..(Len(w) - 1) : f[k] < f[k + 1]
          /\ \A k \in 1..Len(w) : t[f[k]] = w[k]

\* the sum of f over the finite set S
RECURSIVE SetSum(_, _)
SetSum(f, S) ==
    IF S = {} THEN 0
    ELSE LET x == CHOOSE y \in S : TRUE IN f[x] + SetSum(f, S \ {x})

\* the words of the search query as the scoring useMemo sees them
Words == queryWords(trimmedQueryOf(searchQuery))

\* the score the scoring useMemo recorded for COURSES[k]
ScoreAt(k) == scored[k].score

\* the index in COURSES of a course of the result
IndexInCourses(c) == CHOOSE k \in 1..Len(COURSES) : COURSES[k].id = c.id

-----------------------------------------------------------------------------
\* C1: for a query that is non-empty after trimming, the list returned by
\* the scoring filteredCourses holds exactly the courses of COURSES whose
\* score is greater than 0, each of them once, and no course of score 0.
C1_RankerFiltering ==
    QueryActive =>
        /\ Len(scored) = Len(COURSES)
        /\ \A k \in 1..Len(COURSES) :
              /\ scored[k].course = COURSES[k]
              /\ Cardinality({i \in 1..Len(filteredCourses) :
                                 filteredCourses[i] = COURSES[k]})
                    = IF ScoreAt(k) > 0 THEN 1 ELSE 0
        /\ \A i \in 1..Len(filteredCourses) :
              \E k \in 1..Len(COURSES) : filteredCourses[i] = COURSES[k]

\* a search that keeps one course and drops another
C1_Witness ==
    /\ QueryActive
    /\ \E k, m \in 1..Len(COURSES) : ScoreAt(k) = 0 /\ ScoreAt(m) > 0
    /\ Len(filteredCourses) = 1

\* C2: in the list returned for a non-empty query the scores never increase
\* from first to last, and two returned courses of equal score stand in the
\* order they have in COURSES.
C2_RankerOrdering ==
    QueryActive =>
        \A i, j \in 1..Len(filteredCourses) :
            i < j =>
                LET a == IndexInCourses(filteredCourses[i])
                    b == IndexInCourses(filteredCourses[j])
                IN  /\ ScoreAt(a) >= ScoreAt(b)
                    /\ ScoreAt(a) = ScoreAt(b) => a < b

\* a search whose result puts a later course of COURSES first
C2_Witness ==
    /\ QueryActive
    /\ Len(filteredCourses) = 2
    /\ IndexInCourses(filteredCourses[1]) > IndexInCourses(filteredCourses[2])
    /\ ScoreAt(IndexInCourses(filteredCourses[1]))
          > ScoreAt(IndexInCourses(filteredCourses[2]))

\* the amount the specification gives a field for one word
FieldAmount(field, w, exact, fuzzy) ==
    IF includes(toLowerCase(field), w) THEN exact
    ELSE IF IsSubsequence(w, toLowerCase(field)) THEN fuzzy
    ELSE 0

\* the amount the specification gives one module for one word
ModuleAmount(m, w) ==
    FieldAmount(m.title, w, 30, 10) + FieldAmount(m.description, w, 10, 5)
      + (IF m.code = NoCode THEN 0 ELSE FieldAmount(m.code, w, 5, 2))

\* the amount the specification gives a course for one word
WordAmount(course, w) ==
    FieldAmount(course.title, w, 100, 20)
      + (IF includes(toLowerCase(course.category), w) THEN 50 ELSE 0)
      + SetSum([k \in 1..Len(course.modules) |->
                   ModuleAmount(course.modules[k], w)],
               1..Len(course.modules))

\* C3: the score of a course is, summed over the query words w, 100 if the
\* title contains w, else 20 if w is a subsequence of it; plus 50 if the
\* category contains w and nothing for a category that only has w as a
\* subsequence; plus for every module 30/10/5 for w contained in its title,
\* description, code and else 10/5/2 for w a subsequence of them, a module
\* without code adding nothing for code.
C3_ScoreFormula ==
    QueryActive =>
        \A k \in 1..Len(COURSES) :
            ScoreAt(k) = SetSum([i \in 1..Len(Words) |->
                                    WordAmount(COURSES[k], Words[i])],
                                1..Len(Words))

\* a one-word search for which a course has the word only as a subsequence
\* of its title, of its category and of a field of a module
C3_Witness ==
    /\ QueryActive
    /\ Len(Words) = 1
    /\ \E k \in 1..Len(COURSES) :
          LET c == COURSES[k]
              w == Words[1]
          IN  /\ ~includes(toLowerCase(c.title), w)
              /\ IsSubsequence(w, toLowerCase(c.title))
              /\ ~includes(toLowerCase(c.category), w)
              /\ IsSubsequence(w, toLowerCase(c.category))
              /\ Len(c.modules) > 0
              /\ c.modules[1].code # NoCode
              /\ ScoreAt(k) = 27

\* C4: for a non-empty query isFuzzyMatch(text, query) returns true exactly
\* when the lower-cased query is an ordered, possibly non-contiguous,
\* subsequence of the lower-cased text.
C4_FuzzyIsSubsequence ==
    (pc = "done" /\ fmQuery # <<>>) =>
        (fmResult <=> IsSubsequence(toLowerCase(fmQuery), toLowerCase(fmText)))

\* a call that returned true for a query that is in the text only with
\* gaps and only up to letter case
C4_Witness ==
    /\ pc = "done"
    /\ fmQuery # <<>>
    /\ fmResult
    /\ ~includes(toLowerCase(fmText), toLowerCase(fmQuery))
    /\ ~IsSubsequence(fmQuery, fmText)

\* the most one word can add to a course
WordBound(course) == 150 + 45 * Len(course.modules)

\* C5: a field that contains the word is scored as exact only: the exact
\* and the fuzzy amount of a field are never both added for one word, and
\* so one word adds at most 150 + 45 * (number of modules) to a course.
C5_ExactBeforeFuzzy ==
    QueryActive =>
        \A k \in 1..Len(COURSES) :
            /\ ScoreAt(k) <= Len(Words) * WordBound(COURSES[k])
            /\ \A i \in 1..Len(Words) :
                  LET w == Words[i]
                      cTitle == toLowerCase(COURSES[k].title)
                  IN  /\ wordScore(COURSES[k], w) <= WordBound(COURSES[k])
                      /\ titleExact(cTitle, w) = 0 \/ titleFuzzy(cTitle, w) = 0
                      /\ \A n \in 1..Len(COURSES[k].modules) :
                            LET m == COURSES[k].modules[n]
                                mTitle == toLowerCase(m.title)
                                mDesc == toLowerCase(m.description)
                                mCode == toLowerCase(codeOrEmpty(m))
                            IN  /\ \/ moduleTitleExact(mTitle, w) = 0
                                   \/ moduleTitleFuzzy(mTitle, w) = 0
                                /\ \/ moduleDescExact(mDesc, w) = 0
                                   \/ moduleDescFuzzy(mDesc, w) = 0
                                /\ \/ moduleCodeExact(mCode, w) = 0
                                   \/ moduleCodeFuzzy(mCode, w) = 0

\* a one-word search for which every field of a course with a module
\* contains the word: the course has the largest score one word can give
C5_Witness ==
    /\ QueryActive
    /\ Len(Words) = 1
    /\ \E k \in 1..Len(COURSES) :
          /\ Len(COURSES[k].modules) > 0
          /\ ScoreAt(k) = WordBound(COURSES[k])

\* C6: when the search query is empty or only white space, filteredCourses
\* is the whole COURSES list, same length and same order, in the scoring
\* version and in both substring-only versions.
C6_EmptyQueryPassThrough ==
    ~QueryActive =>
        /\ filteredCourses = COURSES
        /\ filteredCoursesV1 = COURSES
        /\ filteredCoursesP0 = COURSES

\* a query of white space only over a full course list
C6_Witness ==
    /\ searchQuery # <<>>
    /\ ~QueryActive
    /\ Len(COURSES) = MaxCourses
    /\ filteredCourses = COURSES

\* the words of the query as typed: its maximal runs of characters that are
\* not white space, each given by the index of its first character
WordStarts ==
    {i \in 1..Len(searchQuery) :
        /\ ~IsWhiteSpace(searchQuery[i])
        /\ i = 1 \/ IsWhiteSpace(searchQuery[i - 1])}

WordFrom(i) ==
    LET last == CHOOSE j \in i..Len(searchQuery) :
                    /\ \A m \in i..j : ~IsWhiteSpace(searchQuery[m])
                    /\ j = Len(searchQuery) \/ IsWhiteSpace(searchQuery[j + 1])
    IN  SubSeq(searchQuery, i, last)

\* the score a course gets when one word alone is the search query
ScoreAlone(course, word) == computeScored(<<course>>, word)[1].score

\* C7: for a query of several words separated by white space the score of a
\* course is the sum of the scores it gets for each word taken alone as the
\* query, a repeated word counting once per repetition.
C7_ScoresSumAcrossWords ==
    QueryActive =>
        \A k \in 1..Len(COURSES) :
            ScoreAt(k) = SetSum([i \in WordStarts |->
                                    ScoreAlone(COURSES[k], WordFrom(i))],
                                WordStarts)

\* a search for the same word twice that scores a course
C7_Witness ==
    /\ Cardinality(WordStarts) = 2
    /\ \A i, j \in WordStarts : toLowerCase(WordFrom(i)) = toLowerCase(WordFrom(j))
    /\ \E k \in 1..Len(COURSES) : ScoreAt(k) > 0

-----------------------------------------------------------------------------
(* Definitions the Highlight properties are stated with *)

\* the texts of the segments joined in order
RECURSIVE ConcatParts(_)
ConcatParts(parts) ==
    IF parts = <<>> THEN <<>>
    ELSE Head(parts).text \o ConcatParts(Tail(parts))

\* the 0-based offset in the text at which segment k starts
OffsetOf(parts, k) == Len(ConcatParts(SubSeq(parts, 1, k - 1)))

\* the query stands at 0-based offset i of the text, up to letter case
OccursAt(text, query, i) ==
    /\ i + Len(query) <= Len(text)
    /\ toLowerCase(SubSeq(text, i + 1, i + Len(query))) = toLowerCase(query)

\* the offsets a left-to-right scan for the literal query picks from offset
\* from on: the first occurrence, then the first one behind it, and so on
RECURSIVE LiteralScan(_, _, _)
LiteralScan(text, query, from) ==
    LET hits == {i \in from..Len(text) : OccursAt(text, query, i)}
    IN  IF hits = {} THEN {}
        ELSE LET first == CHOOSE i \in hits : \A j \in hits : i <= j
             IN  {first} \cup LiteralScan(text, query, first + Len(query))

\* the offsets of the segments tagged matched
MatchedOffsets(parts) ==
    {OffsetOf(parts, k) : k \in {n \in 1..Len(parts) : parts[n].matched}}

HighlightActive ==
    pc = "done" /\ \E k \in 1..Len(hlQuery) : ~IsWhiteSpace(hlQuery[k])

AllHlParts == {hlParts, hlPartsV1, hlPartsP0}

\* C8: for every text and query the segments Highlight produces, joined in
\* order, are exactly the text.
C8_HighlightRoundTrip ==
    pc = "done" => \A parts \in AllHlParts : ConcatParts(parts) = hlText

\* a rendering with two matched segments, one of them not in the letter
\* case of the query
C8_Witness ==
    /\ pc = "done"
    /\ Cardinality({k \in 1..Len(hlParts) : hlParts[k].matched}) = 2
    /\ \E k \in 1..Len(hlParts) :
          hlParts[k].matched /\ hlParts[k].text # hlQuery

C10_HighlightLiteral ==
    (HighlightActive /\ \E k \in 1..Len(hlQuery) :
                            hlQuery[k] \in RegExpSyntaxChars) =>
        /\ \A parts \in {hlParts, hlPartsV1} :
              /\ MatchedOffsets(parts) = LiteralScan(hlText, hlQuery, 0)
              /\ \A k \in 1..Len(parts) :
                    parts[k].matched => Len(parts[k].text) = Len(hlQuery)
        /\ (hlText = ExampleText /\ hlQuery = ExampleQuery) =>
              hlParts = << [text |-> <<>>, matched |-> FALSE],
                           [text |-> <<"a", ".", "b">>, matched |-> TRUE],
                           [text |-> <<" ", "a", "n", "d", " ", "a", "x", "b">>,
                            matched |-> FALSE] >>

\* the example of the specification rendered
C10_Witness ==
    /\ pc = "done"
    /\ hlText = ExampleText
    /\ hlQuery = ExampleQuery
    /\ Len(hlParts) = 3

\* C11: when the query is empty or only white space, Highlight returns the
\* whole text as one single segment that is not tagged matched, for every
\* text.
C11_HighlightEmptyQuery ==
    (pc = "done" /\ \A k \in 1..Len(hlQuery) : IsWhiteSpace(hlQuery[k])) =>
        \A parts \in AllHlParts :
            /\ Len(parts) = 1
            /\ parts[1].text = hlText
            /\ ~parts[1].matched

\* a rendering of a query of white space only over a text that has that
\* white space between other characters
C11_Witness ==
    /\ pc = "done"
    /\ hlQuery = <<" ">>
    /\ Len(hlText) = 3
    /\ hlText[2] = " " /\ hlText[1] # " " /\ hlText[3] # " "
    /\ Len(hlParts) = 1

C13_RankerIdempotent ==
    computeFilteredCourses(filteredCourses, searchQuery) = filteredCourses

\* a search that returned two courses of equal score: a sort that is not
\* stable could swap them on the second ranking
C13_Witness ==
    /\ QueryActive
    /\ Len(filteredCourses) = 2
    /\ LET a == IndexInCourses(filteredCourses[1])
           b == IndexInCourses(filteredCourses[2])
       IN  ScoreAt(a) = ScoreAt(b) /\ a < b

C15_QueryWordsNonEmpty ==
    QueryActive =>
        /\ Len(Words) >= 1
        /\ \A i \in 1..Len(Words) :
              /\ Words[i] # <<>>
              /\ \A k \in 1..Len(Words[i]) : ~IsWhiteSpace(Words[i][k])

\* a search for " a \t B ": white space at the start, at the end and a run
\* of two different white space characters between the two words
C15_Witness ==
    /\ searchQuery = QuerySpaced
    /\ Words = << <<"a">>, <<"b">> >>
    /\ Len(scored) = 2

\* C16: isFuzzyMatch gives an answer for every text and query; for the
\* empty text it answers false for every non-empty query, and for the empty
\* query it answers true for every text, the empty text too.
C16_FuzzyOnEmptyStrings ==
    pc = "done" =>
        /\ fmResult \in BOOLEAN
        /\ (fmText = <<>> /\ fmQuery # <<>>) => ~fmResult
        /\ fmQuery = <<>> => fmResult

\* the call on the empty text and the empty query, which answered true
C16_Witness ==
    /\ pc = "done"
    /\ fmText = <<>>
    /\ fmQuery = <<>>
    /\ fmResult

\* the score recorded for the course of COURSES with the given title
ScoreOfTitle(title) ==
    LET k == CHOOSE n \in 1..Len(COURSES) : COURSES[n].title = title
    IN  ScoreAt(k)

\* C17: with the records "Go Basics" (category GO, no modules) and "Python
\* Basics" (category PY, no modules) and the query "go", "Go Basics" scores
\* 150, 100 for the title and 50 for the category, "Python Basics" scores
\* 0, and the result is "Go Basics" alone.
C17_ExampleGoBasics ==
    (COURSES = CoursesBasics /\ searchQuery = QueryGo) =>
        /\ Len(scored) = 2
        /\ ScoreOfTitle(CoursesBasics[1].title) = 150
        /\ titleExact(toLowerCase(CoursesBasics[1].title), Words[1]) = 100
        /\ categoryExact(toLowerCase(CoursesBasics[1].category), Words[1]) = 50
        /\ ScoreOfTitle(CoursesBasics[2].title) = 0
        /\ filteredCourses = <<CoursesBasics[1]>>

\* the search for "go" over the two records
C17_Witness ==
    /\ COURSES = CoursesBasics
    /\ searchQuery = QueryGo
    /\ Len(filteredCourses) = 1

\* the word is neither contained in the field nor a subsequence of it
FieldMatchesNot(field, w) ==
    /\ ~includes(toLowerCase(field), w)
    /\ ~IsSubsequence(w, toLowerCase(field))

\* of the record with one module, no field but the title of the record and
\* the title of the module matches "go" or "channels"
NoOtherFieldMatches(course) ==
    \A w \in {<<"g", "o">>, <<"c", "h", "a", "n", "n", "e", "l", "s">>} :
        /\ FieldMatchesNot(course.category, w)
        /\ FieldMatchesNot(course.modules[1].description, w)
        /\ \/ course.modules[1].code = NoCode
           \/ FieldMatchesNot(course.modules[1].code, w)

\* C18: for the query "go channels" and a record "Go Concurrency" whose
\* one module is titled "Channels", no other field matching either word,
\* the score is 130, 100 for "go" in the title and 30 for "channels" in the
\* module title, and the record is in the result.
C18_ExampleGoChannels ==
    (/\ COURSES \in CoursesConcurrency
     /\ searchQuery = QueryGoChannels
     /\ NoOtherFieldMatches(COURSES[1])) =>
        /\ Words = << <<"g", "o">>,
                      <<"c", "h", "a", "n", "n", "e", "l", "s">> >>
        /\ ScoreAt(1) = 130
        /\ wordScore(COURSES[1], Words[1]) = 100
        /\ wordScore(COURSES[1], Words[2]) = 30
        /\ titleExact(toLowerCase(COURSES[1].title), Words[1]) = 100
        /\ moduleTitleExact(toLowerCase(COURSES[1].modules[1].title),
                            Words[2]) = 30
        /\ filteredCourses = COURSES

\* the search for "go channels" over such a record whose module has code
C18_Witness ==
    /\ COURSES \in CoursesConcurrency
    /\ searchQuery = QueryGoChannels
    /\ NoOtherFieldMatches(COURSES[1])
    /\ COURSES[1].modules[1].code # NoCode
    /\ ScoreAt(1) = 130
    /\ Len(filteredCourses) = 1

\* C19: over an empty list of courses every search, with an empty query or
\* not, returns the empty list.
C19_EmptyCourseList ==
    COURSES = <<>> =>
        /\ filteredCourses = <<>>
        /\ filteredCoursesV1 = <<>>
        /\ filteredCoursesP0 = <<>>
        /\ scored = <<>>

\* a search for two words over the empty list
C19_Witness ==
    /\ COURSES = <<>>
    /\ QueryActive
    /\ Len(Words) = 2
    /\ filteredCourses = <<>>

\* C20: after any sequence of operations of the search box (typing,
\* deleting, clearing, picking a suggestion, dropping text) the searchQuery
\* of the App is the query the box shows, and the course lists are those
\* of that query: every handler that sets query calls onSearch with the
\* same value.
C20_MostRecentInputWins ==
    /\ searchQuery = inputQuery
    /\ filteredCourses = computeFilteredCourses(COURSES, inputQuery)
    /\ filteredCoursesV1 = computeFilteredCoursesV1(COURSES, inputQuery)
    /\ filteredCoursesP0 = computeFilteredCoursesP0(COURSES, inputQuery)

\* the box shows a suggestion with more text behind it (a suggestion
\* picked, then text dropped or typed), and the course list is the one of
\* that text
C20_Witness ==
    /\ \E i \in 1..Len(suggestions) :
          /\ Len(suggestions[i]) < Len(inputQuery)
          /\ SubSeq(inputQuery, 1, Len(suggestions[i])) = suggestions[i]
    /\ showSuggestions
    /\ ~isDragging
    /\ searchQuery = inputQuery
    /\ COURSES # <<>>
    /\ filteredCourses # COURSES

-----------------------------------------------------------------------------
(* Definitions the CodeBlock properties are stated with *)

\* the askGemini call of the mounted CodeBlock has failed / has succeeded
\* and the rest of handleAiExplain has not run yet
FailedCall ==
    \E i \in 1..Len(requests) :
        requests[i].status = "rejected" /\ StillMounted(i)

SucceededCall ==
    \E i \in 1..Len(requests) :
        requests[i].status = "resolved" /\ StillMounted(i)

\* the askGemini calls a mount of the CodeBlock is waiting for
CallsOf(n) == {i \in 1..Len(requests) : requests[i].instance = n}

\* C21: whenever the askGemini call of a CodeBlock fails, by the missing
\* API key or by a rejected request, the explanation becomes the failure
\* message and isAiLoading returns to false, so that a new request can be
\* started; after a call that succeeds isAiLoading returns to false too,
\* with the answer as the explanation.
C21_ExplainFailureContained ==
    /\ FailedCall ~> (/\ explanation = <<FailureMessage>>
                      /\ ~isAiLoading
                      /\ mounted
                      /\ CallsOf(block) = {})
    /\ SucceededCall ~> (/\ explanation # <<>>
                         /\ explanation # <<FailureMessage>>
                         /\ ~isAiLoading
                         /\ mounted
                         /\ CallsOf(block) = {})

\* the CodeBlock shows the failure message after a call without API key
\* and is ready for the next call
C21_Witness ==
    /\ apiKey = ""
    /\ mounted
    /\ explanation = <<FailureMessage>>
    /\ ~isAiLoading
    /\ requests = <<>>

\* C23: a mount of the CodeBlock never waits for more than one askGemini
\* call: while a call is awaited isAiLoading is true and a further click or
\* call of handleAiExplain starts no request.
C23_OneRequestInFlight ==
    /\ \A n \in 1..MaxMounts : Cardinality(CallsOf(n)) <= 1
    /\ mounted => (isAiLoading <=> CallsOf(block) # {})

\* the CodeBlock waits for its call while the call of an earlier mount of
\* it is still pending
C23_Witness ==
    /\ mounted
    /\ isAiLoading
    /\ Len(requests) = 2
    /\ \A i \in 1..2 : requests[i].status = "pending"
    /\ requests[1].instance # requests[2].instance

-----------------------------------------------------------------------------
(* LogicGame properties *)

\* C22: a keydown of w, a, s, d or space, like one of any other key, with
\* the search input as its target puts the character at the end of the
\* search query and leaves the position and the paused flag of the
\* LogicGame as they are.
C22_KeysIsolated ==
    [][/\ pos' = pos
       /\ paused' = paused
       /\ \E key \in GameKeys : inputQuery' = Append(inputQuery, key)]_vars

\* C25: from (50, 50), whatever moves, pause toggles and resets happen,
\* both coordinates stay within 0..100 in the LogicGame of App.tsx and
\* within 2..98 in the LogicGame of part_000.
C25_PositionInBounds ==
    /\ gameVersion = "App.tsx" => pos.x \in 0..100 /\ pos.y \in 0..100
    /\ gameVersion = "part_000" => pos.x \in 2..98 /\ pos.y \in 2..98

\* the dot of part_000 in a corner of the playfield: 50 - 6 * 8 = 2 and
\* 50 + 6 * 8 = 98, and further moves towards the corner have been clamped
C25_Witness ==
    gameVersion = "part_000" /\ pos = [x |-> 2, y |-> 98]

\* a move request: a w, a, s or d key or one of the four buttons
MoveRequest(dir) == moveButton(dir) \/ keyDownElsewhere(dir)

\* C26: while the game is paused a move request by key or by button leaves
\* the position as it is; Reset puts the position at (50, 50), paused or
\* not, and leaves the paused flag as it is; a move request while the game
\* is not paused (at the start or after resuming) moves the dot by one
\* step, up to the limit.
C26_PauseFreezes ==
    [][/\ \A dir \in MoveKeys :
             MoveRequest(dir) =>
                 /\ paused => pos' = pos
                 /\ ~paused => pos' = movedPos(pos, dir)
                 /\ ~paused /\ dir = "w" /\ pos.y > GameMin => pos'.y < pos.y
                 /\ ~paused /\ dir = "d" /\ pos.x < GameMax => pos'.x > pos.x
       /\ resetPos => pos' = [x |-> 50, y |-> 50] /\ paused' = paused
      ]_vars

\* the game paused with the dot away from the centre, where a move request
\* must not move it and Reset must
C26_Witness ==
    paused /\ pos # [x |-> 50, y |-> 50]

-----------------------------------------------------------------------------
(* Preference properties *)

\* the locale the utterance is to have for a language
LocaleOf ==
    [he |-> "he-IL", zh |-> "zh-CN", hi |-> "hi-IN", de |-> "de-DE",
     es |-> "es-ES", fr |-> "fr-FR", en |-> "en-US"]

\* C24: in every version of speakText, the utterance spoken has the lang
\* he-IL, zh-CN, hi-IN, de-DE, es-ES, fr-FR or en-US for the selected
\* language he, zh, hi, de, es, fr or en.
C24_SpeechLocale ==
    [][speakText /\ speechSynthesis => utteranceLang' = LocaleOf[lang]]_vars

\* the items stored are the current theme, language and font size
StoredIsCurrent ==
    /\ DOMAIN localStorage = PrefKeys
    /\ \A k \in PrefKeys : localStorage[k] = currentPrefs[k]

\* C28: while App runs, after every change of theme, language or font
\* size and its effects, the items 'theme', 'lang' and 'fontSize' of the
\* storage equal the state; a start of App with these items stored
\* restores the theme, language and font size App had when it closed, and
\* a start with nothing stored gives 'dark', 'en' and 'medium'.
C28_PrefsRoundTrip ==
    /\ [](appRunning => StoredIsCurrent)
    /\ [][startApp =>
             IF DOMAIN localStorage = {}
             THEN theme' = "dark" /\ lang' = "en" /\ fontSize' = "medium"
             ELSE theme' = theme /\ lang' = lang /\ fontSize' = fontSize]_vars

\* App closed with a light theme, Hebrew and the large font stored: the
\* state a start has to restore
C28_Witness ==
    /\ ~appRunning
    /\ StoredIsCurrent
    /\ theme = "light" /\ lang = "he" /\ fontSize = "large"

\* the preferences after n presses of key with Alt and Shift held
RECURSIVE pressed(_, _, _)
pressed(p, key, n) ==
    IF n = 0 THEN p ELSE pressed(shortcutPrefs(p, key), key, n - 1)

\* the entry after value, going round from the last entry to the first
CyclicSuccessor(list, value) ==
    CHOOSE v \in {list[i] : i \in 1..Len(list)} :
        \E i \in 1..Len(list) :
            /\ list[i] = value
            /\ v = IF i = Len(list) THEN list[1] ELSE list[i + 1]

-----------------------------------------------------------------------------
(* The substring-only filter against the Ranker *)

\* the query has one word: something is left after trim, without white space
SingleWord(q) ==
    /\ trimmedQueryOf(q) # <<>>
    /\ \A i \in 1..Len(trimmedQueryOf(q)) : ~IsWhiteSpace(trimmedQueryOf(q)[i])

\* every course of the list kept is a course of the list keptToo
KeptAlso(kept, keptToo) ==
    \A i \in 1..Len(kept) : \E j \in 1..Len(keptToo) : keptToo[j] = kept[i]

\* C27: for a query of one word, every course the substring-only
\* filteredCourses of App.tsx:153-161 and of part_000:328-336 keeps (its
\* title, category, a module title or a module description contains the
\* query) is kept by the scoring filteredCourses as well.
C27_SubstringSubsumed ==
    SingleWord(searchQuery) =>
        /\ KeptAlso(filteredCoursesV1, filteredCourses)
        /\ KeptAlso(filteredCoursesP0, filteredCourses)

\* a one-word query that the substring filter matches in a module only,
\* not in the title and not in the category of the course
C27_Witness ==
    /\ SingleWord(searchQuery)
    /\ \E i \in 1..Len(filteredCoursesV1) :
          /\ ~includes(toLowerCase(filteredCoursesV1[i].title),
                       trimmedQueryOf(searchQuery))
          /\ ~includes(toLowerCase(filteredCoursesV1[i].category),
                       trimmedQueryOf(searchQuery))
          /\ filteredCoursesV1[i] \in {filteredCoursesP0[j] :
                                          j \in 1..Len(filteredCoursesP0)}

-----------------------------------------------------------------------------
(* The suggestion list of the search box *)

\* {showSuggestions && filteredSuggestions.length > 0 && (<ul> ...
ListDisplayed == showSuggestions /\ Len(filteredSuggestions) > 0

\* typing in the input, or a drop of a non-empty text on the component
\* whose handleDrop opens the list
TypingOrDrop ==
    \/ \E c \in TypedChars : OnChangeType(c)
    \/ OnChangeDelete
    \/ \E text \in DroppedTexts \ {<<>>} : handleDrop(text)

\* C30: the suggestion list is displayed only when the query is non-empty
\* and some suggestion contains it, letter case aside; right after a
\* suggestion is picked or the mouse goes down outside the component the
\* list is hidden; and a hidden list whose flag is off comes back with
\* typing or with a drop of a non-empty text only.
C30_SuggestionVisibility ==
    /\ [](ListDisplayed =>
             /\ inputQuery # <<>>
             /\ \E i \in 1..Len(suggestions) :
                    includes(toLowerCase(suggestions[i]),
                             toLowerCase(inputQuery)))
    /\ [][/\ (\E i \in 1..Len(suggestions) : PickSuggestion(suggestions[i]))
              => ~ListDisplayed'
          /\ handleClickOutside => ~ListDisplayed'
          /\ ~showSuggestions /\ ListDisplayed' => TypingOrDrop]_vars

\* a suggestion has been picked: it is the text of the input, it matches
\* itself, and the list is hidden
C30_Witness ==
    /\ ~showSuggestions
    /\ Len(filteredSuggestions) > 0
    /\ \E i \in 1..Len(suggestions) : suggestions[i] = inputQuery

=============================================================================
